---- MODULE Spec2Model ----
(***************************************************************************)
(* Model of lib/icinga/scheduleddowntime.cpp: the ScheduledDowntime        *)
(* object, its 60-second timer (TimerProc), the segment selection          *)
(* (FindNextSegment) and the check-then-create logic (CreateNextDowntime). *)
(*                                                                         *)
(* Time is counted in whole clock units.  Two threads exist: "main", which *)
(* activates the configured objects (Start), and "timer", which runs       *)
(* TimerProc.  CreateNextDowntime is split at the points where another     *)
(* thread or the clock can get in between: the locked scan of the          *)
(* downtimes (148-162), the first clock read of FindNextSegment (102-103), *)
(* the second clock read with the loop over the ranges (114-143, 164-174), *)
(* AddDowntime (176-178) and SetConfigOwner (180-181).                     *)
(*                                                                         *)
(* Beside the program stand FindNextSegment and ValidateRanges applied to  *)
(* bounded inputs, the configuration load (OnAllConfigLoaded and           *)
(* GetCheckable with hosts and services that may be missing), the program  *)
(* with failing store operations, and one pass of TimerProc as a function  *)
(* of the order of the visit.                                              *)
(***************************************************************************)
EXTENDS Integers, Sequences, FiniteSets, TLC

VARIABLES
    clock,      \* Utility::GetTime(), in whole units
    ranges,     \* ranges[s]: the ranges dictionary of schedule s, as declared
    active,     \* active[s]: DynamicObject::Start() has run for s
    downtimes,  \* downtimes[c]: the downtimes of checkable c, in insertion order
    pc,         \* pc[t]: position of thread t
    sd,         \* sd[t]: the ScheduledDowntime thread t is reconciling
    refts,      \* refts[t]: local refts of FindNextSegment (102)
    now,        \* now[t]: local now of FindNextSegment (114)
    segment,    \* segment[t]: local segment of CreateNextDowntime (164)
    uid,        \* uid[t]: local uid of CreateNextDowntime (176)
    exc,        \* exc[t]: an exception left the last CreateNextDowntime of thread t
    todo,       \* the objects TimerProc has still to visit in this pass
    tickLive,   \* the objects TimerProc enumerated in its latest pass
    invoked,    \* the objects that pass has called CreateNextDowntime on
    store0,     \* the downtimes at initialisation
    overlapped, \* overlapped[s]: a call of CreateNextDowntime of s began while
                \* another thread was inside CreateNextDowntime of s
    selCands,   \* SegmentSelector harness: evaluator results per rule, as declared
    selNow,     \* SegmentSelector harness: the value of now
    selResult,  \* SegmentSelector harness: the value returned
    selPc,      \* SegmentSelector harness: "idle" or "done"
    hosts,      \* configuration load: the names of the Host objects that exist
    services,   \* configuration load: the (host, service) names of the Service objects
    loaded,     \* configuration load: loaded[s], how far schedule s has come
    valRanges,  \* ValidateRanges harness: the entries of the ranges dictionary
    valErrors,  \* ValidateRanges harness: the ValidationErrors raised, in order
    valPc       \* ValidateRanges harness: "idle" or "done"

vars == <<clock, ranges, active, downtimes, pc, sd, refts, now, segment,
          uid, exc, todo, tickLive, invoked, store0, overlapped,
          selCands, selNow, selResult, selPc,
          hosts, services, loaded, valRanges, valErrors, valPc>>

progVars == <<clock, ranges, active, downtimes, pc, sd, refts, now, segment,
              uid, exc, todo, tickLive, invoked, store0, overlapped>>

selVars == <<selCands, selNow, selResult, selPc>>

loadVars == <<hosts, services, loaded>>

valVars == <<valRanges, valErrors, valPc>>

\* the variables of the harnesses, which the program does not touch
harnessVars == <<selVars, loadVars, valVars>>

----------------------------------------------------------------------------
(* Bounds *)

\* the clock runs from 1 to MaxTime
MaxTime == 4

\* number of downtimes other actors may insert
MaxForeign == 1

\* largest number of downtimes in a store at initialisation (SpecTwice)
MaxInit == 2

\* SegmentSelector harness: largest begin of a candidate and largest now
MaxBegin == 4

\* SegmentSelector harness: largest number of rules
MaxRules == 3

Max(a, b) == IF a >= b THEN a ELSE b

Min(S) == CHOOSE x \in S : \A y \in S : x <= y

----------------------------------------------------------------------------
(* Objects *)

Threads == {"main", "timer"}

\* ScheduledDowntimeNameComposer::MakeName: host "!" [service "!"] shortName
MakeName(hostName, serviceName, shortName) ==
    IF serviceName = "" THEN <<hostName, shortName>>
    ELSE <<hostName, serviceName, shortName>>

SD1 == MakeName("h1", "", "sd1")
SD2 == MakeName("h1", "", "sd2")

\* the configured ScheduledDowntime objects, by name
Schedules == {SD1, SD2}

\* GetCheckable: the host, or the service of the host, the name refers to
GetCheckable(s) == IF Len(s) = 2 THEN <<s[1]>> ELSE <<s[1], s[2]>>

Checkables == {GetCheckable(s) : s \in Schedules}

\* scheduled_by / config_owner of a downtime nobody owns
NoName == <<>>

----------------------------------------------------------------------------
(* LegacyTimePeriod::FindNextSegment, the evaluator of one range.          *)
(* A range is a recurrence: segments begin at first, first + period, ...   *)
(* up to last, each len units long; the evaluator fails when called with   *)
(* the reference time failAt (0: never).                                   *)

NoSegment == [kind |-> "none", begin |-> 0, end |-> 0]
Throws == [kind |-> "throw", begin |-> 0, end |-> 0]
Segment(b, e) == [kind |-> "seg", begin |-> b, end |-> e]

\* a range whose last is the Horizon does not run out while the clock runs
Horizon == MaxTime + 4

LegacySegmentBegins(range, reference) ==
    {b \in reference..(Max(reference, range.first) + range.period) :
        /\ b >= range.first
        /\ b <= range.last
        /\ (b - range.first) % range.period = 0}

LegacyFindNextSegment(range, reference) ==
    IF range.failAt = reference THEN Throws
    ELSE LET begins == LegacySegmentBegins(range, reference)
         IN IF begins = {} THEN NoSegment
            ELSE Segment(Min(begins), Min(begins) + range.len)

\* the order in which BOOST_FOREACH visits the entries of a Dictionary declared
\* in the order decl: the order of declaration
DictionaryOrder(decl) == [i \in 1..Len(decl) |-> decl[i]]

\* the evaluator's answers for the ranges of a dictionary, in the order of declaration
Candidates(rs, reference) ==
    [i \in 1..Len(rs) |-> LegacyFindNextSegment(rs[i], reference)]

----------------------------------------------------------------------------
(* ScheduledDowntime::FindNextSegment (100-144) *)

\* if (begin < now) continue;  (131)
\* (StaleNever: the test left out)
StaleNever(begin, n) == FALSE
Stale(begin, n) == begin < n

\* if (!bestSegment || begin < bestBegin)  (134)
\* (BetterOrEqual: <= written for <; BetterGreater: > written for <)
BetterOrEqual(begin, best) == best.kind = "none" \/ begin <= best.begin
BetterGreater(begin, best) == best.kind = "none" \/ begin > best.begin
Better(begin, best) == best.kind = "none" \/ begin < best.begin

\* the BOOST_FOREACH over the ranges (117-138): best is bestSegment, and an
\* exception of the evaluator ends the loop and leaves the function
RECURSIVE SegmentLoop(_, _, _, _)
SegmentLoop(cands, i, n, best) ==
    IF i > Len(cands) THEN best
    ELSE IF cands[i].kind = "throw" THEN Throws
    ELSE IF cands[i].kind = "none" THEN SegmentLoop(cands, i + 1, n, best)
    ELSE IF Stale(cands[i].begin, n) THEN SegmentLoop(cands, i + 1, n, best)
    ELSE IF Better(cands[i].begin, best) THEN SegmentLoop(cands, i + 1, n, cands[i])
    ELSE SegmentLoop(cands, i + 1, n, best)

\* the value returned (140-143): the pair (begin, end) of bestSegment, or (0, 0);
\* threw is set when an exception of the evaluator left the function instead
FindNextSegment(cands, n) ==
    LET best == SegmentLoop(cands, 1, n, NoSegment)
    IN [threw |-> best.kind = "throw",
        first |-> IF best.kind = "seg" THEN best.begin ELSE 0,
        second |-> IF best.kind = "seg" THEN best.end ELSE 0]

NoPair == [threw |-> FALSE, first |-> 0, second |-> 0]

\* if (segment.first == 0 && segment.second == 0)  (166)
\* (IsNoSegmentNever: the test left out)
IsNoSegmentNever(seg) == FALSE
IsNoSegment(seg) == seg.first = 0 /\ seg.second = 0

----------------------------------------------------------------------------
(* Configuration: the ranges dictionaries an object may be configured with *)

\* begins 2, 4, 6, ...
RangeA == [first |-> 2, period |-> 2, last |-> Horizon, len |-> 1, failAt |-> 0]
\* begins 3, 6, 9, ...
RangeB == [first |-> 3, period |-> 3, last |-> Horizon, len |-> 2, failAt |-> 0]
\* begins 2 only: exhausted afterwards
RangeC == [first |-> 2, period |-> 2, last |-> 2, len |-> 2, failAt |-> 0]
\* begins 3, 6, ...; the evaluator fails at reference time 2
RangeF == [first |-> 3, period |-> 3, last |-> Horizon, len |-> 1, failAt |-> 2]

\* the configurations of the two objects
Configs ==
    {[s \in Schedules |-> IF s = SD1 THEN <<RangeB, RangeA>> ELSE <<RangeF>>],
     [s \in Schedules |-> IF s = SD1 THEN <<RangeC>> ELSE <<RangeB, RangeA>>],
     [s \in Schedules |-> IF s = SD1 THEN <<RangeF>> ELSE <<RangeC>>]}

\* some range of rs yields a segment at every reference time, and none fails
AlwaysProduces(rs) ==
    /\ \E i \in 1..Len(rs) : rs[i].last = Horizon
    /\ \A i \in 1..Len(rs) : rs[i].failAt = 0

----------------------------------------------------------------------------
(* Downtimes *)

Downtime(id, scheduledBy, configOwner, startTime, endTime) ==
    [id |-> id, scheduledBy |-> scheduledBy, configOwner |-> configOwner,
     startTime |-> startTime, endTime |-> endTime]

\* the downtimes of the checkable of s
Store(s) == downtimes[GetCheckable(s)]

\* the test of the scan (155-156) negated: the downtime is owned by name and
\* has not started yet
\* (IsPendingStrict: <= written for <; IsPendingFlipped: > written for <;
\* IsPendingOther: == written for !=; IsPendingAnyOwner: the test of
\* scheduledBy left out)
IsPendingStrict(d, name, t) == d.scheduledBy = name /\ d.startTime > t
IsPendingFlipped(d, name, t) == d.scheduledBy = name /\ d.startTime <= t
IsPendingOther(d, name, t) == d.scheduledBy # name /\ d.startTime >= t
IsPendingAnyOwner(d, name, t) == d.startTime >= t
IsPending(d, name, t) == ~(d.scheduledBy # name \/ d.startTime < t)

\* the positions of the downtimes of s that the scan would accept at time t
Pending(s, t) == {i \in DOMAIN Store(s) : IsPending(Store(s)[i], s, t)}

\* the positions of the downtimes tagged with the name of s
Own(s) == {i \in DOMAIN Store(s) : Store(s)[i].scheduledBy = s}

\* Checkable::AddDowntime(author, comment, startTime, endTime, fixed, triggeredBy,
\* duration, scheduledBy): appends the downtime and returns its id
AddDowntime(store, startTime, endTime, scheduledBy) ==
    Append(store, Downtime(Len(store) + 1, scheduledBy, NoName, startTime, endTime))

\* Checkable::GetDowntimeByID(uid)->SetConfigOwner(owner)
SetConfigOwner(store, id, owner) ==
    [i \in DOMAIN store |->
        IF store[i].id = id THEN [store[i] EXCEPT !.configOwner = owner] ELSE store[i]]

----------------------------------------------------------------------------
(* Threads *)

InCall(t) == pc[t] \in {"scan", "ref", "select", "add", "owner"}

\* some thread is inside CreateNextDowntime of s
Busy(s) == \E t \in Threads : InCall(t) /\ sd[t] = s

\* where thread t continues when CreateNextDowntime returns
ReturnTo(t) == IF t = "timer" THEN "loop" ELSE "idle"

\* a thread enters CreateNextDowntime of s
Enter(t, s) ==
    /\ pc' = [pc EXCEPT ![t] = "scan"]
    /\ sd' = [sd EXCEPT ![t] = s]
    /\ exc' = [exc EXCEPT ![t] = FALSE]
    /\ overlapped' = [overlapped EXCEPT ![s] = @ \/ Busy(s)]
    /\ UNCHANGED <<refts, now, segment, uid>>

\* CreateNextDowntime returns in thread t
Leave(t) ==
    /\ pc' = [pc EXCEPT ![t] = ReturnTo(t)]
    /\ refts' = [refts EXCEPT ![t] = 0]
    /\ now' = [now EXCEPT ![t] = 0]
    /\ segment' = [segment EXCEPT ![t] = NoPair]
    /\ uid' = [uid EXCEPT ![t] = 0]

----------------------------------------------------------------------------
(* ScheduledDowntime::Start (76-81): DynamicObject::Start(), then the call *)
(* of CreateNextDowntime                                                   *)

\* (StartOnly: the call of CreateNextDowntime left out)
StartOnly(s) ==
    /\ pc["main"] = "idle"
    /\ ~active[s]
    /\ active' = [active EXCEPT ![s] = TRUE]
    /\ UNCHANGED <<clock, ranges, downtimes, pc, sd, refts, now, segment, uid,
                   exc, todo, tickLive, invoked, store0, overlapped>>
    /\ UNCHANGED harnessVars
Start(s) ==
    /\ pc["main"] = "idle"
    /\ ~active[s]
    /\ active' = [active EXCEPT ![s] = TRUE]
    /\ Enter("main", s)
    /\ UNCHANGED <<clock, ranges, downtimes, todo, tickLive, invoked, store0>>
    /\ UNCHANGED harnessVars

----------------------------------------------------------------------------
(* ScheduledDowntime::TimerProc (83-88), connected to the timer by         *)
(* StaticInitialize (60-66).  The timer fires every 60 seconds; a pass may *)
(* begin at any value of the clock here, which includes every spacing of   *)
(* the passes.  The pass visits the objects GetObjectsByType enumerates,   *)
(* in an order the code does not choose.                                   *)

\* DynamicType::GetObjectsByType<ScheduledDowntime>()
GetObjectsByType == {s \in Schedules : active[s]}

\* the orders in which a set of objects can be enumerated
Orders(S) ==
    {q \in UNION {[1..n -> S] : n \in {Cardinality(S)}} :
        \A i, j \in DOMAIN q : i # j => q[i] # q[j]}

TimerProc ==
    /\ pc["timer"] = "idle"
    /\ \E q \in Orders(GetObjectsByType) : todo' = q
    /\ tickLive' = GetObjectsByType
    /\ invoked' = {}
    /\ pc' = [pc EXCEPT !["timer"] = "loop"]
    /\ UNCHANGED <<clock, ranges, active, downtimes, sd, refts, now, segment,
                   uid, exc, store0, overlapped>>
    /\ UNCHANGED harnessVars

\* sd->CreateNextDowntime() for the next object of the pass (86); nothing keeps
\* the call from beginning while another thread is inside CreateNextDowntime of
\* the same object
TimerCall ==
    /\ pc["timer"] = "loop"
    /\ todo # <<>>
    /\ todo' = Tail(todo)
    /\ invoked' = invoked \cup {Head(todo)}
    /\ Enter("timer", Head(todo))
    /\ UNCHANGED <<clock, ranges, active, downtimes, tickLive, store0>>
    /\ UNCHANGED harnessVars

\* the end of the BOOST_FOREACH (87-88)
TimerDone ==
    /\ pc["timer"] = "loop"
    /\ todo = <<>>
    /\ pc' = [pc EXCEPT !["timer"] = "idle"]
    /\ UNCHANGED <<clock, ranges, active, downtimes, sd, refts, now, segment,
                   uid, exc, todo, tickLive, invoked, store0, overlapped>>
    /\ UNCHANGED harnessVars

----------------------------------------------------------------------------
(* ScheduledDowntime::CreateNextDowntime (146-182) *)

\* the scan of the downtimes under the lock (148-162)
\* (CreateScanNoReturn: the return at 160 left out)
CreateScanNoReturn(t) ==
    /\ pc[t] = "scan"
    /\ pc' = [pc EXCEPT ![t] = "ref"]
    /\ UNCHANGED <<refts, now, segment, uid>>
    /\ UNCHANGED <<clock, ranges, active, downtimes, sd, exc, todo, tickLive,
                   invoked, store0, overlapped>>
    /\ UNCHANGED harnessVars
CreateScan(t) ==
    /\ pc[t] = "scan"
    /\ IF Pending(sd[t], clock) # {}
       THEN Leave(t)
       ELSE /\ pc' = [pc EXCEPT ![t] = "ref"]
            /\ UNCHANGED <<refts, now, segment, uid>>
    /\ UNCHANGED <<clock, ranges, active, downtimes, sd, exc, todo, tickLive,
                   invoked, store0, overlapped>>
    /\ UNCHANGED harnessVars

\* FindNextSegment: refts = Utility::GetTime() and the reference tm (102-103)
FindRef(t) ==
    /\ pc[t] = "ref"
    /\ refts' = [refts EXCEPT ![t] = clock]
    /\ pc' = [pc EXCEPT ![t] = "select"]
    /\ UNCHANGED <<clock, ranges, active, downtimes, sd, now, segment, uid,
                   exc, todo, tickLive, invoked, store0, overlapped>>
    /\ UNCHANGED harnessVars

\* FindNextSegment: now = Utility::GetTime() and the loop (114-143), then the test
\* of the result in CreateNextDowntime (164-174).  An exception of the evaluator
\* leaves FindNextSegment, CreateNextDowntime and its caller (Start or TimerProc).
FindSelect(t) ==
    /\ pc[t] = "select"
    /\ LET seg == FindNextSegment(DictionaryOrder(Candidates(ranges[sd[t]], refts[t])), clock)
       IN IF seg.threw
          THEN /\ exc' = [exc EXCEPT ![t] = TRUE]
               /\ pc' = [pc EXCEPT ![t] = "idle"]
               /\ todo' = IF t = "timer" THEN <<>> ELSE todo
               /\ refts' = [refts EXCEPT ![t] = 0]
               /\ UNCHANGED <<now, segment, uid>>
          ELSE IF IsNoSegment(seg)
          THEN /\ Leave(t)
               /\ UNCHANGED <<exc, todo>>
          ELSE /\ pc' = [pc EXCEPT ![t] = "add"]
               /\ now' = [now EXCEPT ![t] = clock]
               /\ segment' = [segment EXCEPT ![t] = seg]
               /\ UNCHANGED <<refts, uid, exc, todo>>
    /\ UNCHANGED <<clock, ranges, active, downtimes, sd, tickLive, invoked, store0, overlapped>>
    /\ UNCHANGED harnessVars

\* uid = GetCheckable()->AddDowntime(..., segment.first, segment.second, ...,
\* GetName())  (176-178)
\* (CreateAddTwice: AddDowntime called a second time)
CreateAddTwice(t) ==
    /\ pc[t] = "add"
    /\ downtimes' = [downtimes EXCEPT ![GetCheckable(sd[t])] =
                        AddDowntime(AddDowntime(@, segment[t].first, segment[t].second, sd[t]),
                                    segment[t].first, segment[t].second, sd[t])]
    /\ uid' = [uid EXCEPT ![t] = Len(Store(sd[t])) + 2]
    /\ pc' = [pc EXCEPT ![t] = "owner"]
    /\ UNCHANGED <<clock, ranges, active, sd, refts, now, segment, exc, todo,
                   tickLive, invoked, store0, overlapped>>
    /\ UNCHANGED harnessVars
CreateAdd(t) ==
    /\ pc[t] = "add"
    /\ downtimes' = [downtimes EXCEPT ![GetCheckable(sd[t])] =
                        AddDowntime(@, segment[t].first, segment[t].second, sd[t])]
    /\ uid' = [uid EXCEPT ![t] = Len(Store(sd[t])) + 1]
    /\ pc' = [pc EXCEPT ![t] = "owner"]
    /\ UNCHANGED <<clock, ranges, active, sd, refts, now, segment, exc, todo,
                   tickLive, invoked, store0, overlapped>>
    /\ UNCHANGED harnessVars

\* Checkable::GetDowntimeByID(uid)->SetConfigOwner(GetName())  (180-181)
\* (CreateOwnerSkipped: the update left out)
CreateOwnerSkipped(t) ==
    /\ pc[t] = "owner"
    /\ Leave(t)
    /\ UNCHANGED <<clock, ranges, active, downtimes, sd, exc, todo,
                   tickLive, invoked, store0, overlapped>>
    /\ UNCHANGED harnessVars
CreateOwner(t) ==
    /\ pc[t] = "owner"
    /\ downtimes' = [downtimes EXCEPT ![GetCheckable(sd[t])] =
                        SetConfigOwner(@, uid[t], sd[t])]
    /\ Leave(t)
    /\ UNCHANGED <<clock, ranges, active, sd, exc, todo, tickLive,
                   invoked, store0, overlapped>>
    /\ UNCHANGED harnessVars

\* a step of thread t inside CreateNextDowntime
ThreadStep(t) ==
    \/ CreateScan(t)
    \/ FindRef(t)
    \/ FindSelect(t)
    \/ CreateAdd(t)
    \/ CreateOwner(t)

----------------------------------------------------------------------------
(* Environment *)

\* Utility::GetTime() grows
AdvanceClock ==
    /\ clock < MaxTime
    /\ clock' = clock + 1
    /\ UNCHANGED <<ranges, active, downtimes, pc, sd, refts, now, segment,
                   uid, exc, todo, tickLive, invoked, store0, overlapped>>
    /\ UNCHANGED harnessVars

\* the downtimes of c that no ScheduledDowntime is named in
Foreign(c) == {i \in DOMAIN downtimes[c] : downtimes[c][i].scheduledBy = NoName}

\* another actor adds a downtime of its own (scheduledBy empty), which has not
\* started yet, to a checkable
ForeignAdd(c) ==
    /\ Cardinality(Foreign(c)) < MaxForeign
    /\ downtimes' = [downtimes EXCEPT ![c] = AddDowntime(@, Horizon, Horizon + 1, NoName)]
    /\ UNCHANGED <<clock, ranges, active, pc, sd, refts, now, segment, uid,
                   exc, todo, tickLive, invoked, store0, overlapped>>
    /\ UNCHANGED harnessVars

----------------------------------------------------------------------------
(* The program: objects are started one after the other by the main thread, *)
(* the timer fires at any time, and the threads are not coordinated (the    *)
(* code holds no lock from the scan to the insertion).  SpecConc is the     *)
(* program alone; in Spec other actors insert downtimes of their own.       *)

SelIdle ==
    /\ selCands = <<>>
    /\ selNow = 1
    /\ selResult = NoPair
    /\ selPc = "idle"

\* the configuration load has finished: the host of the schedules exists, and
\* OnAllConfigLoaded has returned for each of them
LoadIdle ==
    /\ hosts = {"h1"}
    /\ services = {}
    /\ loaded = [s \in Schedules |-> "loaded"]

ValIdle ==
    /\ valRanges = <<>>
    /\ valErrors = <<>>
    /\ valPc = "idle"

ThreadsIdle ==
    /\ pc = [t \in Threads |-> "idle"]
    /\ sd = [t \in Threads |-> SD1]
    /\ refts = [t \in Threads |-> 0]
    /\ now = [t \in Threads |-> 0]
    /\ segment = [t \in Threads |-> NoPair]
    /\ uid = [t \in Threads |-> 0]
    /\ exc = [t \in Threads |-> FALSE]
    /\ todo = <<>>
    /\ tickLive = {}
    /\ invoked = {}
    /\ overlapped = [s \in Schedules |-> FALSE]

Init ==
    /\ clock = 1
    /\ ranges \in Configs
    /\ active = [s \in Schedules |-> FALSE]
    /\ downtimes = [c \in Checkables |-> <<>>]
    /\ store0 = downtimes
    /\ ThreadsIdle
    /\ SelIdle
    /\ LoadIdle
    /\ ValIdle

Next ==
    \/ \E s \in Schedules : Start(s)
    \/ TimerProc
    \/ TimerCall
    \/ TimerDone
    \/ \E t \in Threads : CreateScan(t)
    \/ \E t \in Threads : FindRef(t)
    \/ \E t \in Threads : FindSelect(t)
    \/ \E t \in Threads : CreateAdd(t)
    \/ \E t \in Threads : CreateOwner(t)
    \/ AdvanceClock
    \/ \E c \in Checkables : ForeignAdd(c)

Spec == Init /\ [][Next]_vars

NextConc ==
    \/ \E s \in Schedules : Start(s)
    \/ TimerProc
    \/ TimerCall
    \/ TimerDone
    \/ \E t \in Threads : CreateScan(t)
    \/ \E t \in Threads : FindRef(t)
    \/ \E t \in Threads : FindSelect(t)
    \/ \E t \in Threads : CreateAdd(t)
    \/ \E t \in Threads : CreateOwner(t)
    \/ AdvanceClock

SpecConc == Init /\ [][NextConc]_vars

----------------------------------------------------------------------------
(* Two calls of CreateNextDowntime of SD1 in succession, from any store:   *)
(* the call of Start, then the call of one pass of TimerProc, with no      *)
(* other object started and no other actor.                                *)

\* the downtimes a store may hold at initialisation
InitDowntimes(n) ==
    {q \in [1..n -> {Downtime(0, o, o, st, st + 1) : o \in {NoName, SD1}, st \in 1..3}] :
        TRUE}

InitStores ==
    {[i \in DOMAIN q |-> [q[i] EXCEPT !.id = i]] :
        q \in UNION {InitDowntimes(n) : n \in 0..MaxInit}}

InitTwice ==
    /\ clock = 1
    /\ ranges \in Configs
    /\ active = [s \in Schedules |-> FALSE]
    /\ downtimes \in [Checkables -> InitStores]
    /\ store0 = downtimes
    /\ ThreadsIdle
    /\ SelIdle
    /\ LoadIdle
    /\ ValIdle

\* the pass of TimerProc that makes the second call
TwiceTimerProc ==
    /\ active[SD1]
    /\ pc["main"] = "idle"
    /\ invoked = {}
    /\ TimerProc

NextTwice ==
    \/ Start(SD1)
    \/ TwiceTimerProc
    \/ TimerCall
    \/ TimerDone
    \/ \E t \in Threads : CreateScan(t)
    \/ \E t \in Threads : FindRef(t)
    \/ \E t \in Threads : FindSelect(t)
    \/ \E t \in Threads : CreateAdd(t)
    \/ \E t \in Threads : CreateOwner(t)
    \/ AdvanceClock

SpecTwice == InitTwice /\ [][NextTwice]_vars

----------------------------------------------------------------------------
(* FindNextSegment on its own: the answers of the evaluator for the ranges *)
(* and the value of now are drawn from bounded sets.                       *)

CandidateSet ==
    {NoSegment, Throws} \cup {Segment(b, b + l) : b \in 1..MaxBegin, l \in 1..2}

InitSel ==
    /\ clock = 1
    /\ ranges = [s \in Schedules |-> <<RangeA>>]
    /\ active = [s \in Schedules |-> FALSE]
    /\ downtimes = [c \in Checkables |-> <<>>]
    /\ store0 = downtimes
    /\ ThreadsIdle
    /\ selCands \in UNION {[1..n -> CandidateSet] : n \in 0..MaxRules}
    /\ selNow \in 1..MaxBegin
    /\ selResult = NoPair
    /\ selPc = "idle"
    /\ LoadIdle
    /\ ValIdle

SelFindNextSegment ==
    /\ selPc = "idle"
    /\ selResult' = FindNextSegment(DictionaryOrder(selCands), selNow)
    /\ selPc' = "done"
    /\ UNCHANGED <<selCands, selNow>>
    /\ UNCHANGED <<progVars, loadVars, valVars>>

NextSel == SelFindNextSegment

SpecSel == InitSel /\ [][NextSel]_vars

----------------------------------------------------------------------------
(* Properties *)

\* the positions of the downtimes of s with scheduledBy = s and startTime >= clock
OwnPending(s) ==
    {i \in DOMAIN Store(s) : Store(s)[i].scheduledBy = s /\ Store(s)[i].startTime >= clock}

\* C1: in every state reached by Start, timer passes, clock advances and
\* insertions of untagged downtimes by other actors, each schedule whose
\* reconciliations have run one at a time (no call of CreateNextDowntime of it
\* began while another was running) has at most one downtime with scheduledBy =
\* its name and startTime >= now in the store of its target.
AtMostOnePending ==
    \A s \in Schedules : ~overlapped[s] => Cardinality(OwnPending(s)) <= 1

\* C1 witness: a schedule with one pending downtime next to an earlier one of its
\* own that has started and to a downtime of another actor, all threads idle.
AtMostOnePendingWitness ==
    \E s \in Schedules :
        /\ ~overlapped[s]
        /\ Cardinality(OwnPending(s)) = 1
        /\ Cardinality(Own(s)) >= 2
        /\ Foreign(GetCheckable(s)) # {}
        /\ \A t \in Threads : pc[t] = "idle"

\* C2: no interleaving of two executions of CreateNextDowntime of one schedule
\* reaches a state with two downtimes tagged with its name and startTime >= now.
NoTwoPendingWhenRacing ==
    \A s \in Schedules : \A i, j \in DOMAIN Store(s) :
        (/\ Store(s)[i].scheduledBy = s
         /\ Store(s)[j].scheduledBy = s
         /\ Store(s)[i].startTime >= clock
         /\ Store(s)[j].startTime >= clock) => i = j

\* the number of downtimes added to the store of SD1 since initialisation
Added == Len(Store(SD1)) - Len(store0[GetCheckable(SD1)])

\* the first downtime added since initialisation
FirstAdded == Store(SD1)[Len(store0[GetCheckable(SD1)]) + 1]

\* both calls (the one of Start, the one of the timer pass) have returned
TwiceDone ==
    /\ active[SD1]
    /\ pc["main"] = "idle"
    /\ pc["timer"] = "idle"
    /\ SD1 \in invoked

\* C3 as stated: two calls of CreateNextDowntime in succession, with no other
\* actor, add at most one downtime to the store, whatever the store held.
TwiceAddsAtMostOne ==
    TwiceDone => Added <= 1

\* C3 amended: two calls in succession add at most one downtime unless the
\* downtime the first call added has started (startTime < now) when the second
\* call scans the store; the second call gets past its scan only then, and then
\* two calls add at most two downtimes.
TwiceAddsOneUnlessStarted ==
    /\ Added <= 2
    /\ (Added >= 1 /\ pc["timer"] \in {"ref", "select", "add"}) =>
            FirstAdded.startTime < clock
    /\ Added = 2 => FirstAdded.startTime < clock

\* C3 witness: from an empty store and with the clock standing still, both
\* calls have returned and the store holds the one downtime the first added,
\* which the second found pending.
TwiceWitness ==
    /\ TwiceDone
    /\ clock = 1
    /\ store0[GetCheckable(SD1)] = <<>>
    /\ Added = 1
    /\ FirstAdded.scheduledBy = SD1
    /\ FirstAdded.startTime >= clock

\* Start of s has returned
StartReturned(s) == active[s] /\ ~(sd["main"] = s /\ pc["main"] # "idle")

\* the position of the downtime of s inserted last
LastOwn(s) == CHOOSE i \in Own(s) : \A j \in Own(s) : j <= i

\* C4 as stated: for a started schedule whose rules always produce a future
\* segment, at every instant after Start returned exactly one downtime with
\* scheduledBy = name and startTime >= now exists.
ExactlyOneFutureWindow ==
    \A s \in Schedules :
        (StartReturned(s) /\ AlwaysProduces(ranges[s])) =>
            Cardinality(OwnPending(s)) = 1

\* C4 amended: for such a schedule, at every instant after Start returned
\* there are at most two such downtimes, and when no call of CreateNextDowntime
\* of the schedule began while another was running there is at most one:
\* exactly one, the one inserted last, from its insertion until its startTime
\* passes, and none from then until a later reconciliation inserts the next one.
OneFutureWindowUntilItStarts ==
    \A s \in Schedules :
        (StartReturned(s) /\ AlwaysProduces(ranges[s])) =>
            /\ Cardinality(OwnPending(s)) <= 2
            /\ ~overlapped[s] =>
                  IF Own(s) # {} /\ Store(s)[LastOwn(s)].startTime >= clock
                  THEN OwnPending(s) = {LastOwn(s)}
                  ELSE OwnPending(s) = {}

\* C4 witness: such a schedule whose second downtime is pending after the first
\* has started.
OneFutureWindowWitness ==
    \E s \in Schedules :
        /\ StartReturned(s)
        /\ AlwaysProduces(ranges[s])
        /\ ~overlapped[s]
        /\ Cardinality(Own(s)) = 2
        /\ OwnPending(s) = {LastOwn(s)}
        /\ ~Busy(s)

\* the downtimes of checkable c that carry the name of a schedule
Tagged(c) == {i \in DOMAIN downtimes[c] : downtimes[c][i].scheduledBy \in Schedules}

\* C5 as stated: every downtime CreateNextDowntime inserted has
\* scheduledBy = configOwner = the name of the schedule in every state, also
\* between AddDowntime and SetConfigOwner.
OwnerTaggedAlways ==
    \A c \in Checkables : \A i \in Tagged(c) :
        downtimes[c][i].configOwner = downtimes[c][i].scheduledBy

\* C5 amended: every downtime CreateNextDowntime inserted has scheduledBy = the
\* name of the schedule from its insertion on, and configOwner = that name once
\* SetConfigOwner has run; between AddDowntime and SetConfigOwner its
\* configOwner is empty.
OwnerTaggedAfterSetConfigOwner ==
    \A c \in Checkables : \A i \in Tagged(c) :
        LET d == downtimes[c][i]
            creating == \E t \in Threads :
                           /\ pc[t] = "owner"
                           /\ GetCheckable(sd[t]) = c
                           /\ sd[t] = d.scheduledBy
                           /\ uid[t] = d.id
        IN /\ GetCheckable(d.scheduledBy) = c
           /\ IF creating THEN d.configOwner = NoName
              ELSE d.configOwner = d.scheduledBy

\* C5 witness: one downtime whose creator has returned carries both names while
\* another one sits between AddDowntime and SetConfigOwner.
OwnerTaggedWitness ==
    \E c \in Checkables : \E i, j \in Tagged(c) :
        /\ downtimes[c][i].configOwner = downtimes[c][i].scheduledBy
        /\ downtimes[c][j].configOwner = NoName
        /\ \E t \in Threads : pc[t] = "owner" /\ uid[t] = downtimes[c][j].id

\* SegmentSelector harness: the rules whose candidate begins at or after now
SelFuture ==
    {i \in DOMAIN selCands : selCands[i].kind = "seg" /\ selCands[i].begin >= selNow}

\* SegmentSelector harness: no rule makes the evaluator fail
SelNoThrow == \A i \in DOMAIN selCands : selCands[i].kind # "throw"

\* C6: FindNextSegment returns the candidate with the smallest begin among the
\* candidates with begin >= now, wherever its rule stands among the rules, and
\* (0, 0) when there is no such candidate.
SoonestWins ==
    (selPc = "done" /\ SelNoThrow) =>
        /\ ~selResult.threw
        /\ SelFuture = {} => selResult = NoPair
        /\ SelFuture # {} =>
              /\ \A i \in SelFuture : selResult.first <= selCands[i].begin
              /\ \E i \in SelFuture :
                    /\ selResult.first = selCands[i].begin
                    /\ selResult.second = selCands[i].end

\* C6 witness: three rules, the soonest candidate produced by the last one.
SoonestWinsWitness ==
    /\ selPc = "done"
    /\ Len(selCands) = 3
    /\ SelFuture = {1, 2, 3}
    /\ selCands[3].begin < selCands[1].begin
    /\ selCands[1].begin < selCands[2].begin
    /\ selResult.first = selCands[3].begin

\* C7: FindNextSegment never returns a segment with begin < now, even when that
\* segment has the smallest begin of all candidates; so every downtime
\* CreateNextDowntime inserts has startTime >= the time of the selection.
PastSegmentRejected ==
    \A t \in Threads :
        /\ pc[t] \in {"add", "owner"} => segment[t].first >= now[t]
        /\ pc[t] = "owner" =>
              \E i \in DOMAIN Store(sd[t]) :
                 /\ Store(sd[t])[i].id = uid[t]
                 /\ Store(sd[t])[i].scheduledBy = sd[t]
                 /\ Store(sd[t])[i].startTime = segment[t].first
                 /\ Store(sd[t])[i].startTime >= now[t]

\* C7 witness: a downtime has been inserted although a rule produced a candidate
\* with begin < now that was the smallest of all.
PastSegmentRejectedWitness ==
    \E t \in Threads :
        /\ pc[t] = "owner"
        /\ \E i \in DOMAIN ranges[sd[t]] :
              LET c == Candidates(ranges[sd[t]], refts[t])[i]
              IN c.kind = "seg" /\ c.begin < now[t] /\ c.begin < segment[t].first

\* SegmentSelector harness: the first rule, in the order of declaration, whose
\* candidate has the smallest begin >= now
SelFirstMinimal ==
    CHOOSE i \in SelFuture :
        /\ \A j \in SelFuture : selCands[i].begin <= selCands[j].begin
        /\ \A j \in SelFuture : selCands[j].begin = selCands[i].begin => i <= j

\* C8: when several rules produce candidates with the same smallest begin
\* (>= now), FindNextSegment returns the candidate of the rule declared first.
FirstDeclaredWinsTie ==
    (selPc = "done" /\ SelNoThrow /\ SelFuture # {}) =>
        /\ selResult.first = selCands[SelFirstMinimal].begin
        /\ selResult.second = selCands[SelFirstMinimal].end

\* C8 witness: two rules with the same smallest begin and different ends, the
\* end of the first returned.
FirstDeclaredWinsTieWitness ==
    /\ selPc = "done"
    /\ Len(selCands) = 2
    /\ SelFuture = {1, 2}
    /\ selCands[1].begin = selCands[2].begin
    /\ selCands[1].end # selCands[2].end
    /\ selResult.second = selCands[1].end

\* no rule of the schedule of thread t yields a segment with begin >= the clock
NoFutureCandidate(t) ==
    \A i \in DOMAIN ranges[sd[t]] :
        LET c == Candidates(ranges[sd[t]], refts[t])[i]
        IN c.kind = "none" \/ (c.kind = "seg" /\ c.begin < clock)

\* C9: when the scan found no pending downtime and every rule yields no match
\* or only a segment with begin < now, CreateNextDowntime inserts nothing, leaves
\* the store unchanged, raises no error and returns.
NoFutureSegmentNoOp ==
    [][\A t \in Threads :
          /\ (pc[t] \in {"scan", "ref"} /\ pc'[t] # pc[t]) => downtimes' = downtimes
          /\ (pc[t] = "select" /\ pc'[t] # "select" /\ NoFutureCandidate(t)) =>
                /\ downtimes' = downtimes
                /\ ~exc'[t]
                /\ pc'[t] = ReturnTo(t)]_vars

\* C9 witness: Start of a schedule whose only rule is exhausted has returned
\* without error and the schedule has no downtime.
NoFutureSegmentNoOpWitness ==
    /\ ranges[SD1] = <<RangeC>>
    /\ active[SD1]
    /\ pc["main"] = "idle"
    /\ sd["main"] = SD1
    /\ ~exc["main"]
    /\ Own(SD1) = {}

\* C10: when CreateNextDowntime raises an error for one schedule in a pass of
\* TimerProc, the pass still calls CreateNextDowntime for every other schedule
\* it enumerated.
PassVisitsAllDespiteFailure ==
    pc["timer"] = "idle" => invoked = tickLive

\* C11: when the evaluator throws for one rule, FindNextSegment still returns
\* without an exception, and what it returns is the candidate with the smallest
\* begin >= now among the rules that did not throw ((0, 0) when there is none).
RuleFailureSkipped ==
    selPc = "done" =>
        /\ ~selResult.threw
        /\ SelFuture = {} => selResult = NoPair
        /\ SelFuture # {} =>
              /\ \A i \in SelFuture : selResult.first <= selCands[i].begin
              /\ \E i \in SelFuture :
                    /\ selResult.first = selCands[i].begin
                    /\ selResult.second = selCands[i].end

----------------------------------------------------------------------------
(* Failures of the downtime store: AddDowntime (176-178), GetDowntimeByID  *)
(* (180) or SetConfigOwner (181) may fail.  CreateNextDowntime has no      *)
(* try/catch, so the exception leaves it and its caller, as an exception   *)
(* of the evaluator does; what AddDowntime stored before stays stored.     *)

\* an exception leaves CreateNextDowntime in thread t, and TimerProc with it
Throw(t) ==
    /\ exc' = [exc EXCEPT ![t] = TRUE]
    /\ pc' = [pc EXCEPT ![t] = "idle"]
    /\ todo' = IF t = "timer" THEN <<>> ELSE todo
    /\ refts' = [refts EXCEPT ![t] = 0]
    /\ now' = [now EXCEPT ![t] = 0]
    /\ segment' = [segment EXCEPT ![t] = NoPair]
    /\ uid' = [uid EXCEPT ![t] = 0]

\* AddDowntime fails (176-178): nothing has been stored
CreateAddFails(t) ==
    /\ pc[t] = "add"
    /\ Throw(t)
    /\ UNCHANGED <<clock, ranges, active, downtimes, sd, tickLive, invoked, store0, overlapped>>
    /\ UNCHANGED harnessVars

\* GetDowntimeByID or SetConfigOwner fails (180-181), after AddDowntime returned
CreateOwnerFails(t) ==
    /\ pc[t] = "owner"
    /\ Throw(t)
    /\ UNCHANGED <<clock, ranges, active, downtimes, sd, tickLive, invoked, store0, overlapped>>
    /\ UNCHANGED harnessVars

NextFail ==
    \/ \E s \in Schedules : Start(s)
    \/ TimerProc
    \/ TimerCall
    \/ TimerDone
    \/ \E t \in Threads : CreateScan(t)
    \/ \E t \in Threads : FindRef(t)
    \/ \E t \in Threads : FindSelect(t)
    \/ \E t \in Threads : CreateAdd(t)
    \/ \E t \in Threads : CreateAddFails(t)
    \/ \E t \in Threads : CreateOwner(t)
    \/ \E t \in Threads : CreateOwnerFails(t)
    \/ AdvanceClock

\* begins 2, 4, ... for h1!sd1; begins 2 only for h1!sd2
FailConfigs == {[s \in Schedules |-> IF s = SD1 THEN <<RangeA>> ELSE <<RangeC>>]}

InitFail ==
    /\ clock = 1
    /\ ranges \in FailConfigs
    /\ active = [s \in Schedules |-> FALSE]
    /\ downtimes = [c \in Checkables |-> <<>>]
    /\ store0 = downtimes
    /\ ThreadsIdle
    /\ SelIdle
    /\ LoadIdle
    /\ ValIdle

SpecFail == InitFail /\ [][NextFail]_vars

\* C12: when AddDowntime, GetDowntimeByID or SetConfigOwner fails in a call of
\* CreateNextDowntime, the store of the target is as it was when the call began:
\* it holds no downtime inserted by that call (so that the next pass of
\* TimerProc can create the downtime anew).
StoreFailureLeavesNothing ==
    [][\A t \in Threads :
          (pc[t] \in {"add", "owner"} /\ exc'[t]) =>
              \A i \in DOMAIN downtimes'[GetCheckable(sd[t])] :
                  ~(/\ downtimes'[GetCheckable(sd[t])][i].scheduledBy = sd[t]
                    /\ downtimes'[GetCheckable(sd[t])][i].id = uid[t])]_vars

----------------------------------------------------------------------------
(* Configuration load: OnAllConfigLoaded (68-74) and GetCheckable (90-98)  *)
(* for schedules whose host or service may be missing.                     *)

LoadHosts == {"h1", "h2"}

\* one host-level and one service-level schedule for each host name
LoadSchedules ==
    {MakeName(h, sv, "sd") : h \in LoadHosts, sv \in {"", "s1"}}

\* GetHostName() and GetServiceName() of the schedule named s
GetHostName(s) == s[1]
GetServiceName(s) == IF Len(s) = 2 THEN "" ELSE s[2]

Null == [kind |-> "null"]
Crash == [kind |-> "crash"]
Object(name) == [kind |-> "object", name |-> name]

\* Host::GetByName(name)
HostGetByName(name) == IF name \in hosts THEN Object(<<name>>) ELSE Null

\* host->GetServiceByShortName(name), host not null
GetServiceByShortName(host, name) ==
    IF <<host.name[1], name>> \in services
    THEN Object(<<host.name[1], name>>) ELSE Null

\* what GetCheckable (90-98) can produce for s.  With a service name it calls
\* host->GetServiceByShortName without testing host (97): for a missing host
\* this dereferences a null pointer, and the call may end the process, return
\* null or return a pointer to something.
GetCheckableResults(s) ==
    LET host == HostGetByName(GetHostName(s))
    IN IF GetServiceName(s) = "" THEN {host}
       ELSE IF host = Null
       THEN {Crash, Null, Object(<<GetHostName(s), GetServiceName(s)>>)}
       ELSE {GetServiceByShortName(host, GetServiceName(s))}

\* the process has been ended by the null dereference
Crashed == \E s \in DOMAIN loaded : loaded[s] = "crashed"

\* OnAllConfigLoaded (68-74): ScriptError when GetCheckable() is null
OnAllConfigLoaded(s) ==
    /\ ~Crashed
    /\ loaded[s] = "configured"
    /\ \E r \in GetCheckableResults(s) :
          loaded' = [loaded EXCEPT ![s] =
                        IF r = Crash THEN "crashed"
                        ELSE IF r = Null THEN "error"
                        ELSE "loaded"]
    /\ UNCHANGED <<hosts, services>>
    /\ UNCHANGED <<progVars, selVars, valVars>>

\* Start (76-81) of an object whose OnAllConfigLoaded returned:
\* DynamicObject::Start(), then the call of CreateNextDowntime
LoadStart(s) ==
    /\ ~Crashed
    /\ loaded[s] = "loaded"
    /\ Start(s)

\* a step of the main thread inside the CreateNextDowntime that Start called
LoadStep ==
    /\ ~Crashed
    /\ ThreadStep("main")

\* GetCheckable() inside CreateNextDowntime, before the scan (150) and before
\* AddDowntime (176), for an object that got past OnAllConfigLoaded although its
\* host is missing: the null dereference of 97 again, which may end the process
LoadDereference ==
    /\ ~Crashed
    /\ pc["main"] \in {"scan", "add"}
    /\ Crash \in GetCheckableResults(sd["main"])
    /\ loaded' = [loaded EXCEPT ![sd["main"]] = "crashed"]
    /\ UNCHANGED <<hosts, services>>
    /\ UNCHANGED <<progVars, selVars, valVars>>

\* the checkables the schedules of the load name, existing or not
LoadCheckables == {GetCheckable(s) : s \in LoadSchedules}

InitLoad ==
    /\ clock = 1
    /\ ranges = [s \in LoadSchedules |-> <<RangeA>>]
    /\ active = [s \in LoadSchedules |-> FALSE]
    /\ downtimes = [c \in LoadCheckables |-> <<>>]
    /\ store0 = downtimes
    /\ pc = [t \in Threads |-> "idle"]
    /\ sd = [t \in Threads |-> MakeName("h1", "", "sd")]
    /\ refts = [t \in Threads |-> 0]
    /\ now = [t \in Threads |-> 0]
    /\ segment = [t \in Threads |-> NoPair]
    /\ uid = [t \in Threads |-> 0]
    /\ exc = [t \in Threads |-> FALSE]
    /\ todo = <<>>
    /\ tickLive = {}
    /\ invoked = {}
    /\ overlapped = [s \in LoadSchedules |-> FALSE]
    /\ SelIdle
    /\ ValIdle
    /\ hosts \in SUBSET LoadHosts
    /\ services \in SUBSET {<<h, "s1">> : h \in hosts}
    /\ loaded = [s \in LoadSchedules |-> "configured"]

NextLoad ==
    \/ \E s \in LoadSchedules : OnAllConfigLoaded(s)
    \/ \E s \in LoadSchedules : LoadStart(s)
    \/ LoadStep
    \/ LoadDereference

SpecLoad == InitLoad /\ [][NextLoad]_vars

\* the host of s exists and, for a service-level schedule, so does the service
Resolves(s) ==
    /\ s[1] \in hosts
    /\ Len(s) = 3 => <<s[1], s[2]>> \in services

\* C13: for every schedule whose host is missing, or whose service is missing,
\* OnAllConfigLoaded ends in the configuration error, and the schedule is never
\* started: Start does not run for it, and no thread is inside
\* CreateNextDowntime for it.
UnresolvableRejected ==
    \A s \in LoadSchedules :
        ~Resolves(s) =>
            /\ loaded[s] \in {"configured", "error"}
            /\ ~active[s]
            /\ ~Busy(s)

----------------------------------------------------------------------------
(* ScheduledDowntime::ValidateRanges (184-210) on its own.  An entry of    *)
(* the dictionary is a key, which LegacyTimePeriod::ParseTimeRange accepts *)
(* or not, and a value, which LegacyTimePeriod::ProcessTimeRanges accepts  *)
(* or not.                                                                 *)

Entry(keyOk, valueOk) == [keyOk |-> keyOk, valueOk |-> valueOk]

\* ValidationError(this, list_of("ranges"), "Invalid time specification ...") (201)
\* and "Invalid time range definition ..." (207), for the entry at position i
InvalidTimeSpecification(i) == [message |-> "Invalid time specification", entry |-> i]
InvalidTimeRangeDefinition(i) == [message |-> "Invalid time range definition", entry |-> i]

\* the BOOST_FOREACH over the entries (196-209): the errors raised from entry i
\* on; BOOST_THROW_EXCEPTION leaves the loop and the function
RECURSIVE ValidateLoop(_, _)
ValidateLoop(kvs, i) ==
    IF i > Len(kvs) THEN <<>>
    ELSE IF ~kvs[i].keyOk THEN <<InvalidTimeSpecification(i)>>
    ELSE IF ~kvs[i].valueOk THEN <<InvalidTimeRangeDefinition(i)>>
    ELSE ValidateLoop(kvs, i + 1)

\* ValidateRanges(value, utils): if (!value) return;  (186-187)
ValidateRanges(value) ==
    IF value.isNull THEN <<>>
    ELSE ValidateLoop(DictionaryOrder(value.entries), 1)

Entries == {Entry(k, v) : k \in BOOLEAN, v \in BOOLEAN}

InitVal ==
    /\ clock = 1
    /\ ranges = [s \in Schedules |-> <<RangeA>>]
    /\ active = [s \in Schedules |-> FALSE]
    /\ downtimes = [c \in Checkables |-> <<>>]
    /\ store0 = downtimes
    /\ ThreadsIdle
    /\ SelIdle
    /\ LoadIdle
    /\ valRanges \in
          {[isNull |-> TRUE, entries |-> <<>>]} \cup
          {[isNull |-> FALSE, entries |-> q] :
              q \in UNION {[1..n -> Entries] : n \in 0..MaxRules}}
    /\ valErrors = <<>>
    /\ valPc = "idle"

ValValidateRanges ==
    /\ valPc = "idle"
    /\ valErrors' = ValidateRanges(valRanges)
    /\ valPc' = "done"
    /\ UNCHANGED valRanges
    /\ UNCHANGED <<progVars, selVars, loadVars>>

NextVal == ValValidateRanges

SpecVal == InitVal /\ [][NextVal]_vars

\* ValidateRanges harness: the entries whose key or value is malformed
Malformed ==
    {i \in DOMAIN valRanges.entries :
        ~valRanges.entries[i].keyOk \/ ~valRanges.entries[i].valueOk}

\* C14: ValidateRanges examines every entry of the dictionary and raises one
\* validation error for each malformed entry: the errors it reports are as many
\* as the malformed entries, and each malformed entry is named by one of them.
ValidationAggregates ==
    valPc = "done" =>
        /\ Len(valErrors) = Cardinality(Malformed)
        /\ \A i \in Malformed : \E k \in DOMAIN valErrors : valErrors[k].entry = i

\* C15: Start calls CreateNextDowntime in its own thread, and whenever Start
\* returns, either the scan found a pending downtime of the schedule, or no rule
\* yielded a segment with begin >= now, or a downtime tagged with the name of
\* the schedule is in the store of its checkable: no pass of TimerProc is needed
\* for the first downtime.
StartReconcilesSynchronously ==
    [][/\ \A s \in Schedules :
            (~active[s] /\ active'[s]) => (pc'["main"] = "scan" /\ sd'["main"] = s)
       /\ (pc["main"] # "idle" /\ pc'["main"] = "idle" /\ ~exc'["main"]) =>
            \/ pc["main"] = "scan" /\ OwnPending(sd["main"]) # {}
            \/ pc["main"] = "select" /\ NoFutureCandidate("main")
            \/ /\ pc["main"] = "owner"
               /\ \E i \in DOMAIN downtimes'[GetCheckable(sd["main"])] :
                     LET d == downtimes'[GetCheckable(sd["main"])][i]
                     IN /\ d.scheduledBy = sd["main"]
                        /\ d.id = uid["main"]
                        /\ d.startTime = segment["main"].first]_vars

\* C15 witness: Start of the first schedule has returned with its downtime in
\* the store, and TimerProc has not run.
StartReconcilesSynchronouslyWitness ==
    /\ \E s \in Schedules :
          /\ active[s]
          /\ \A o \in Schedules \ {s} : ~active[o]
          /\ sd["main"] = s
          /\ Cardinality(Own(s)) = 1
    /\ pc["main"] = "idle"
    /\ ~exc["main"]
    /\ pc["timer"] = "idle"
    /\ tickLive = {}

----------------------------------------------------------------------------
(* One pass of TimerProc as a function of the order of the visit, with the *)
(* clock standing at t for the whole pass and no other thread at work.     *)

\* CreateNextDowntime (146-182) of s on the downtimes stores at time t: the
\* downtimes afterwards, and whether an exception left the call
CreateNextDowntimeAt(s, stores, t) ==
    LET store == stores[GetCheckable(s)]
        seg == FindNextSegment(DictionaryOrder(Candidates(ranges[s], t)), t)
    IN IF \E i \in DOMAIN store : IsPending(store[i], s, t)
       THEN [stores |-> stores, threw |-> FALSE]
       ELSE IF seg.threw
       THEN [stores |-> stores, threw |-> TRUE]
       ELSE IF IsNoSegment(seg)
       THEN [stores |-> stores, threw |-> FALSE]
       ELSE [stores |-> [stores EXCEPT ![GetCheckable(s)] =
                            SetConfigOwner(AddDowntime(store, seg.first, seg.second, s),
                                           Len(store) + 1, s)],
             threw |-> FALSE]

\* TimerProc (83-88) visiting the objects in the order q: the downtimes
\* afterwards and the objects CreateNextDowntime was called on; an exception
\* ends the BOOST_FOREACH
RECURSIVE TimerProcAt(_, _, _)
TimerProcAt(q, stores, t) ==
    IF q = <<>> THEN [stores |-> stores, invoked |-> {}]
    ELSE LET r == CreateNextDowntimeAt(Head(q), stores, t)
         IN IF r.threw THEN [stores |-> r.stores, invoked |-> {Head(q)}]
            ELSE LET rest == TimerProcAt(Tail(q), r.stores, t)
                 IN [stores |-> rest.stores, invoked |-> {Head(q)} \cup rest.invoked]

\* the downtimes of the stores without their ids
Windows(stores) ==
    [c \in DOMAIN stores |->
        {[scheduledBy |-> stores[c][i].scheduledBy,
          configOwner |-> stores[c][i].configOwner,
          startTime |-> stores[c][i].startTime,
          endTime |-> stores[c][i].endTime] : i \in DOMAIN stores[c]}]

\* C16: a pass of TimerProc calls CreateNextDowntime on every object live at the
\* pass, and the downtimes in the stores after the pass, ids left aside, are the
\* same for every order in which the objects are visited (the objects of the
\* model share one checkable).
PassCoversAllInAnyOrder ==
    (\A t \in Threads : pc[t] = "idle") =>
        \A q1, q2 \in Orders(GetObjectsByType) :
            /\ TimerProcAt(q1, downtimes, clock).invoked = GetObjectsByType
            /\ Windows(TimerProcAt(q1, downtimes, clock).stores) =
                  Windows(TimerProcAt(q2, downtimes, clock).stores)

----------------------------------------------------------------------------
(* The program with a timer that keeps firing: every 60 seconds the timer  *)
(* thread runs TimerProc (60-66), and a thread inside CreateNextDowntime   *)
(* goes on to its end.  The clock is not forced to advance.                *)

\* begins 4, 8, ...; the evaluator fails at reference time 3
RangeG == [first |-> 4, period |-> 4, last |-> Horizon, len |-> 1, failAt |-> 3]

LiveConfigs ==
    {[s \in Schedules |-> IF s = SD1 THEN <<RangeG>> ELSE <<RangeA>>],
     [s \in Schedules |-> IF s = SD1 THEN <<RangeB>> ELSE <<RangeA>>]}

InitLive ==
    /\ clock = 1
    /\ ranges \in LiveConfigs
    /\ active = [s \in Schedules |-> FALSE]
    /\ downtimes = [c \in Checkables |-> <<>>]
    /\ store0 = downtimes
    /\ ThreadsIdle
    /\ SelIdle
    /\ LoadIdle
    /\ ValIdle

Fairness ==
    /\ WF_vars(TimerProc)
    /\ WF_vars(TimerCall)
    /\ WF_vars(TimerDone)
    /\ \A t \in Threads : WF_vars(ThreadStep(t))

SpecLive == InitLive /\ [][NextConc]_vars /\ Fairness

\* some rule of s yields, at reference time t, a segment with begin >= t
FutureCandidateAt(s, t) ==
    \E i \in DOMAIN ranges[s] :
        /\ Candidates(ranges[s], t)[i].kind = "seg"
        /\ Candidates(ranges[s], t)[i].begin >= t

\* C17: whenever a live schedule has no downtime of its own with startTime >= now
\* while its rules yield a candidate with begin >= now, the next pass of
\* TimerProc, in whatever order it visits the objects, leaves such a pending
\* downtime in the store by its end.
ReplenishedByNextPass ==
    (\A t \in Threads : pc[t] = "idle") =>
        \A s \in GetObjectsByType :
            (OwnPending(s) = {} /\ FutureCandidateAt(s, clock)) =>
                \A q \in Orders(GetObjectsByType) :
                    LET store == TimerProcAt(q, downtimes, clock).stores[GetCheckable(s)]
                    IN \E i \in DOMAIN store :
                          /\ store[i].scheduledBy = s
                          /\ store[i].startTime >= clock

\* C18: when the store of the checkable holds a downtime with scheduledBy = the
\* name of the schedule and startTime >= now, whoever inserted it, the scan of
\* CreateNextDowntime returns at once: no rule is evaluated, no exception is
\* raised and the downtimes stay as they are.
PendingShortCircuits ==
    [][\A t \in Threads :
          (pc[t] = "scan" /\ pc'[t] # "scan" /\ OwnPending(sd[t]) # {}) =>
              /\ pc'[t] = ReturnTo(t)
              /\ refts'[t] = 0
              /\ ~exc'[t]
              /\ downtimes' = downtimes]_vars

\* C18 witness: the store held a pending downtime tagged h1!sd1 from the start,
\* Start and one pass of TimerProc have called CreateNextDowntime, and the
\* downtimes are as they were.
PendingShortCircuitsWitness ==
    /\ active[SD1]
    /\ pc["main"] = "idle"
    /\ pc["timer"] = "idle"
    /\ invoked = {SD1}
    /\ ~exc["main"]
    /\ ~exc["timer"]
    /\ OwnPending(SD1) # {}
    /\ downtimes = store0

\* some rule of the schedule of thread t yields a segment with begin >= the
\* clock, and the evaluator fails for none
FutureCandidate(t) ==
    /\ \E i \in DOMAIN ranges[sd[t]] :
          /\ Candidates(ranges[sd[t]], refts[t])[i].kind = "seg"
          /\ Candidates(ranges[sd[t]], refts[t])[i].begin >= clock
    /\ \A i \in DOMAIN ranges[sd[t]] :
          Candidates(ranges[sd[t]], refts[t])[i].kind # "throw"

\* C19: downtimes of other owners (scheduledBy empty or the name of another
\* schedule of the same checkable) and own downtimes with startTime < now do not
\* stop CreateNextDowntime: when the schedule has no own downtime with
\* startTime >= now the scan goes on to FindNextSegment, and when a rule yields
\* a candidate with begin >= now a downtime tagged with the name of the schedule
\* is appended to the store.
ForeignNeverBlocks ==
    [][\A t \in Threads :
          /\ (pc[t] = "scan" /\ pc'[t] # "scan" /\ OwnPending(sd[t]) = {}) =>
                pc'[t] = "ref"
          /\ (pc[t] = "select" /\ pc'[t] # "select" /\ FutureCandidate(t)) =>
                pc'[t] = "add"
          /\ (pc[t] = "add" /\ pc'[t] # "add") =>
                /\ Len(downtimes'[GetCheckable(sd[t])]) = Len(Store(sd[t])) + 1
                /\ LET d == downtimes'[GetCheckable(sd[t])][Len(Store(sd[t])) + 1]
                   IN d.scheduledBy = sd[t] /\ d.startTime >= now[t]]_vars

\* C19 witness: on their common checkable both schedules have a pending
\* downtime of their own, next to a pending downtime of another actor and to an
\* own downtime that has started.
ForeignNeverBlocksWitness ==
    /\ \A s \in Schedules : OwnPending(s) # {}
    /\ \E c \in Checkables : Foreign(c) # {}
    /\ \E s \in Schedules : Own(s) \ OwnPending(s) # {}
    /\ \A t \in Threads : pc[t] = "idle"

\* the downtimes the stores held at initialisation are in the stores as they were
StorePreserved ==
    \A c \in Checkables :
        /\ Len(downtimes[c]) >= Len(store0[c])
        /\ \A i \in DOMAIN store0[c] : downtimes[c][i] = store0[c][i]

\* a step changes the store of c only by appending one downtime tagged with the
\* name of the schedule a thread is in CreateNextDowntime for, or by setting the
\* config owner of the downtime that thread has appended in the same call
InsertOnlyStep(c) ==
    \/ downtimes'[c] = downtimes[c]
    \/ \E t \in Threads :
          /\ pc[t] = "add"
          /\ c = GetCheckable(sd[t])
          /\ Len(downtimes'[c]) = Len(downtimes[c]) + 1
          /\ \A i \in DOMAIN downtimes[c] : downtimes'[c][i] = downtimes[c][i]
          /\ downtimes'[c][Len(downtimes'[c])].scheduledBy = sd[t]
    \/ \E t \in Threads :
          /\ pc[t] = "owner"
          /\ c = GetCheckable(sd[t])
          /\ Len(downtimes'[c]) = Len(downtimes[c])
          /\ \A i \in DOMAIN downtimes[c] :
                \/ downtimes'[c][i] = downtimes[c][i]
                \/ /\ downtimes[c][i].id = uid[t]
                   /\ i > Len(store0[c])
                   /\ downtimes'[c][i] = [downtimes[c][i] EXCEPT !.configOwner = sd[t]]

\* C20: a call of CreateNextDowntime changes the store of its checkable by
\* appending no or one downtime and setting the config owner of that downtime,
\* and nothing else: no downtime is removed, and the downtimes that were in the
\* stores before the calls stay as they were through Start and the passes of
\* TimerProc.
InsertOnly ==
    /\ []StorePreserved
    /\ [][\A c \in Checkables : InsertOnlyStep(c)]_vars

\* C20 witness: the store held two downtimes before the calls, one of them
\* tagged h1!sd1, the calls have appended to it, and all threads are idle.
InsertOnlyWitness ==
    /\ \E c \in Checkables :
          /\ Len(store0[c]) = 2
          /\ \E i \in DOMAIN store0[c] : store0[c][i].scheduledBy = SD1
          /\ Len(downtimes[c]) > Len(store0[c])
          /\ downtimes[c][Len(downtimes[c])].configOwner = SD1
    /\ \A t \in Threads : pc[t] = "idle"

====
